---------------------------- MODULE Spec2Model ----------------------------
(***************************************************************************)
(* psxavenc decoding front end: the bounded ring (ringbuf.c) and the       *)
(* re-timing / flow-control pipeline built on it (decoding.c).             *)
(*                                                                         *)
(* Time is counted in ticks (one tick = 0.1 s in the worked examples), so  *)
(* video_next_pts, pts and frame_time are integers.  The sums of           *)
(* poll_av_packet_video are double additions: they are exact below         *)
(* 2^MantissaBits ticks and rounded to MantissaBits significant bits       *)
(* above.  Ring capacities are scaled down from 0x4000 / 0x20 / 0x1000;    *)
(* every operation is otherwise the code's.                                *)
(* assert() is modelled as the default build does it: a failed assertion   *)
(* aborts the program (pc = "aborted").  A loop iteration that leaves the  *)
(* whole state unchanged while its condition still holds can never exit;   *)
(* it is recorded as pc = "hung".                                          *)
(***************************************************************************)
EXTENDS Integers, Sequences, FiniteSets, TLC

\* ------------------------------------------------------------------ bounds
\* decoding.c:41  #define BUFFERED_AUDIO_SAMPLES 0x4000  (scaled)
BUFFERED_AUDIO_SAMPLES == 4
\* decoding.c:42  #define BUFFERED_VIDEO_FRAMES 0x20  (scaled)
BUFFERED_VIDEO_FRAMES == 6
\* decoding.c:46  #define RESAMPLE_BUFFER_SIZE 0x1000  (scaled)
RESAMPLE_BUFFER_SIZE == 2
\* largest capacity of the stand-alone ring of SpecRing
MaxCapacity == 6
\* items written to the ring of SpecSpan at most, and its largest capacity
MaxItems == 12
MaxSpanCapacity == 5
\* packets the source holds at most
MaxPackets == 4
\* largest needed_audio_samples / needed_video_frames a consumer asks for
MaxNeed == 2
\* frame_time ranges over 1..MaxFrameTime ticks
MaxFrameTime == 2
\* presentation timestamps of the pipeline run, in ticks: 0..MaxPts
MaxPts == 3
\* presentation timestamps of the video-only run: -MaxFrameTime..MaxVideoPts
MaxVideoPts == 10
\* frames the video-only run ingests at most
MaxVideoFrames == 3
\* the finer video-only run (one tick = 0.05 s in the worked example):
\* frame_time MaxFineFrameTime - 1 or MaxFineFrameTime, pts in 0..MaxFinePts,
\* MaxFineFrames frames
MaxFineFrameTime == 4
MaxFinePts == 4
MaxFineFrames == 5
\* significant bits of a timestamp (53 in a double): sums below
\* 2^MantissaBits ticks are exact, larger ones are rounded
MantissaBits == 4
\* the video-only run with rounded sums: frame_time in MinRoundFrameTime ..
\* MaxRoundFrameTime (well above the rounding error of a sum, as a frame time
\* in seconds is for a double), pts up to MaxRoundPts, MaxRoundFrames frames
MinRoundFrameTime == 3
MaxRoundFrameTime == 5
MaxRoundPts == 24
MaxRoundFrames == 3

VARIABLES
    audio_samples,          \* decoder->audio_samples  (ring_buffer_t)
    video_frames,           \* decoder->video_frames   (ring_buffer_t)
    video_next_pts,         \* decoder->state.video_next_pts
    frame_time,             \* video_fps_den / video_fps_num
    end_of_input,           \* decoder->end_of_input
    packets,                \* packets av_read_frame will still deliver
    pc,                     \* where the single thread of control is
    needed_audio_samples,   \* arguments of the running ensure_av_data
    needed_video_frames,
    sample_count,           \* poll_av_packet_audio: samples left to copy
    ret,                    \* result of the ensure_av_data that just returned
    poll_ret,               \* result of the last poll_av_data
    polls,                  \* poll_av_data calls of the running ensure_av_data
    remaining0,             \* packets left when ensure_av_data was called
    ingested,               \* video-only run: pts of the frames ingested so far
    removed,                \* the consumer has removed frames from video_frames
    resample_buffer,        \* av->resample_buffer: samples of the packet at hand
    items_written,          \* stand-alone ring: items written so far
    held,                   \* resources the session holds
    args                    \* open_av_data: what the call is given and meets

vars == <<audio_samples, video_frames, video_next_pts, frame_time,
          end_of_input, packets, pc, needed_audio_samples,
          needed_video_frames, sample_count, ret, poll_ret, polls,
          remaining0, ingested, removed, resample_buffer, items_written, held,
          args>>

\* ------------------------------------------------------------- ringbuf.c
\* C's % on ints truncates towards zero (b > 0).
CRem(a, b) == IF a >= 0 THEN a % b ELSE -((-a) % b)

\* slot values: a slot never written, bytes read outside the buffer, one
\* resampled audio sample, the converted frame of the packet stamped pts
Uninit == <<"uninit">>
Garbage == <<"garbage">>
Sample == <<"sample">>
Frame(pts) == <<"frame", pts>>
Item(k) == <<"item", k>>

init_ring_buffer(initial_capacity) ==
    [capacity |-> initial_capacity, head |-> 0, tail |-> 0, count |-> 0,
     data |-> [i \in 0 .. initial_capacity - 1 |-> Uninit]]

\* assert(count >= 0 && count <= (buf->capacity - buf->count))
AppendPre(buf, n) == n >= 0 /\ n <= buf.capacity - buf.count

ring_buffer_append(buf, n) ==
    [buf EXCEPT !.tail = CRem(buf.tail + n, buf.capacity),
                !.count = buf.count + n]

\* variant: head advanced without the wrap
ring_buffer_remove_nowrap(buf, n) ==
    [buf EXCEPT !.head = buf.head + n,
                !.count = buf.count - n]

\* assert(count >= 0 && count <= buf->count)
RemovePre(buf, n) == n >= 0 /\ n <= buf.count

ring_buffer_remove(buf, n) ==
    [buf EXCEPT !.head = CRem(buf.head + n, buf.capacity),
                !.count = buf.count - n]

\* slot index computed by ring_buffer_get_head / ring_buffer_get_tail
ring_buffer_get_head(buf, offset) == CRem(buf.head + offset, buf.capacity)

ring_buffer_get_tail(buf, offset) == CRem(buf.tail - offset, buf.capacity)

ring_buffer_is_contiguous(buf) ==
    \/ buf.head + buf.count = buf.tail
    \/ buf.head + buf.count = buf.capacity

\* variant: the free space, not cut at the end of the buffer
ring_buffer_get_contiguous_span_free(buf) ==
    buf.capacity - buf.count

ring_buffer_get_contiguous_span(buf) ==
    IF ring_buffer_is_contiguous(buf)
    THEN buf.capacity - buf.tail
    ELSE buf.head - buf.tail

\* memcpy of n items of value v to the slots start .. start+n-1
Store(data, start, n, v) ==
    [i \in DOMAIN data |-> IF start <= i /\ i < start + n THEN v ELSE data[i]]

\* memcpy of n items to the slots start .. start+n-1 from src, skip items in
StoreSpan(data, start, n, src, skip) ==
    [i \in DOMAIN data |->
        IF start <= i /\ i < start + n /\ skip + (i - start) + 1 \in DOMAIN src
        THEN src[skip + (i - start) + 1]
        ELSE IF start <= i /\ i < start + n THEN Garbage ELSE data[i]]

\* values a read of slot idx can give; a slot outside the buffer is an
\* out-of-bounds read, which can give anything
Load(data, idx) ==
    IF idx \in DOMAIN data
    THEN {data[idx]}
    ELSE {Garbage} \cup {data[i] : i \in DOMAIN data}

\* the queued items, oldest first, as ring_buffer_get_head(0 .. count-1) reads
Contents(buf) ==
    [i \in 1 .. buf.count |-> buf.data[ring_buffer_get_head(buf, i - 1)]]

\* ------------------------------------------------------------ decoding.c
\* double arithmetic: a sum is rounded to the nearest value with MantissaBits
\* significant bits, ties to the even mantissa
RECURSIVE Pow2(_)
Pow2(n) == IF n = 0 THEN 1 ELSE 2 * Pow2(n - 1)

ExactLimit == Pow2(MantissaBits)

\* the spacing of the representable values around x >= 0
RECURSIVE Quantum(_)
Quantum(x) == IF x < ExactLimit THEN 1 ELSE 2 * Quantum(x \div 2)

RoundDouble(x) ==
    LET m == IF x < 0 THEN -x ELSE x
        q == Quantum(m)
        lo == (m \div q) * q
        r == m - lo
        up == \/ 2 * r > q
              \/ 2 * r = q /\ (lo \div q) % 2 = 1
        v == IF up THEN lo + q ELSE lo
    IN  IF x < 0 THEN -v ELSE v

\* a + b on doubles
FAdd(a, b) == RoundDouble(a + b)

\* poll_av_packet_video, lines 333-343: the duplication loop.  The set of
\* outcomes [buf, next, aborted] it can end in.
RECURSIVE DupLoop(_, _, _, _)
DupLoop(buf, next, pts, ft) ==
    IF FAdd(next, ft) < pts
    THEN IF ~(1 <= buf.count)       \* assert of ring_buffer_get_tail(buf, 1)
         THEN {[buf |-> buf, next |-> next, aborted |-> TRUE]}
         ELSE UNION {
                LET copied == [buf EXCEPT !.data =
                        Store(buf.data, ring_buffer_get_tail(buf, 0), 1, v)]
                IN  IF ~AppendPre(copied, 1)
                    THEN {[buf |-> copied, next |-> next, aborted |-> TRUE]}
                    ELSE DupLoop(ring_buffer_append(copied, 1),
                                 FAdd(next, ft), pts, ft)
                : v \in Load(buf.data, ring_buffer_get_tail(buf, 1)) }
    ELSE {[buf |-> buf, next |-> next, aborted |-> FALSE]}

\* variant: video_next_pts not advanced after the converted frame
EmitFrame_noadvance(r, pts, ft) ==
    IF r.aborted
    THEN r
    ELSE LET written == [r.buf EXCEPT !.data =
                 Store(r.buf.data, ring_buffer_get_tail(r.buf, 0), 1, Frame(pts))]
         IN  IF ~AppendPre(written, 1)
             THEN [buf |-> written, next |-> r.next, aborted |-> TRUE]
             ELSE [buf |-> ring_buffer_append(written, 1),
                   next |-> r.next, aborted |-> FALSE]

\* poll_av_packet_video, lines 345-364: convert the frame into the tail slot
EmitFrame(r, pts, ft) ==
    IF r.aborted
    THEN r
    ELSE LET written == [r.buf EXCEPT !.data =
                 Store(r.buf.data, ring_buffer_get_tail(r.buf, 0), 1, Frame(pts))]
         IN  IF ~AppendPre(written, 1)
             THEN [buf |-> written, next |-> r.next, aborted |-> TRUE]
             ELSE [buf |-> ring_buffer_append(written, 1),
                   next |-> FAdd(r.next, ft), aborted |-> FALSE]

\* variant: a frame stamped below video_next_pts is dropped even when the
\* ring is empty
poll_av_packet_video_nofirst(buf, next, pts, ft) ==
    IF pts < next
    THEN {[buf |-> buf, next |-> next, aborted |-> FALSE]}
    ELSE {EmitFrame(r, pts, ft) : r \in DupLoop(buf, next, pts, ft)}

\* variant: a frame stamped exactly video_next_pts is dropped too
poll_av_packet_video_le(buf, next, pts, ft) ==
    IF buf.count = 0
    THEN {EmitFrame(r, pts, ft) : r \in DupLoop(buf, pts, pts, ft)}
    ELSE IF pts <= next
         THEN {[buf |-> buf, next |-> next, aborted |-> FALSE]}
         ELSE {EmitFrame(r, pts, ft) : r \in DupLoop(buf, next, pts, ft)}

\* poll_av_packet_video for a decoded frame stamped pts
poll_av_packet_video(buf, next, pts, ft) ==
    IF buf.count = 0
    THEN {EmitFrame(r, pts, ft) : r \in DupLoop(buf, pts, pts, ft)}
    ELSE IF pts < next
         THEN {[buf |-> buf, next |-> next, aborted |-> FALSE]}
         ELSE {EmitFrame(r, pts, ft) : r \in DupLoop(buf, next, pts, ft)}

\* variant: the loop waits for exactly the requested amount (the disabled
\* condition of lines 410-411)
EnsureCond_exact(acount, vcount, na, nv) ==
    \/ acount < na
    \/ vcount < nv

\* variant: a need of zero is compared like any other
EnsureCond_noguard(acount, vcount, na, nv) ==
    \/ acount <= na
    \/ vcount <= nv

\* variant: no look-ahead frame is waited for
EnsureCond_nolookahead(acount, vcount, na, nv) ==
    \/ (na # 0 /\ acount <= na)
    \/ (nv # 0 /\ vcount < nv)

\* ensure_av_data, lines 413-414: the condition of the while loop
EnsureCond(acount, vcount, na, nv) ==
    \/ (na # 0 /\ acount <= na)
    \/ (nv # 0 /\ vcount <= nv)

\* variant: the drain result asks for the requested amount
EnsureDrain_needed(acount, vcount, na, nv) ==
    /\ (acount > na \/ na = 0)
    /\ (vcount > nv \/ nv = 0)

\* variant: the drain result asks both rings to be non-empty
EnsureDrain_both(acount, vcount, na, nv) ==
    /\ acount > 0
    /\ vcount > 0

\* ensure_av_data, lines 421-423: the result once poll_av_data returned false
EnsureDrain(acount, vcount, na, nv) ==
    /\ (acount > 0 \/ na = 0)
    /\ (vcount > 0 \/ nv = 0)

Polling ==
    /\ pc = "ensure"
    /\ EnsureCond(audio_samples.count, video_frames.count,
                  needed_audio_samples, needed_video_frames)

\* ------------------------------------------- open_av_data / close_av_data
\* the library calls of open_av_data that can fail
FailPoints ==
    {"open_input", "stream_info", "audio_alloc", "audio_params", "audio_open",
     "swr_alloc", "swr_options", "swr_init", "video_alloc", "video_params",
     "video_open", "sws_get", "sws_colorspace", "sws_options", "frame_alloc"}

\* what open_av_data is given: the DECODER_* flags, the audio and video
\* streams the file holds, and the call that fails if it is reached
ArgsSet ==
    [use_audio : BOOLEAN, audio_required : BOOLEAN,
     use_video : BOOLEAN, video_required : BOOLEAN,
     naudio : 0 .. 2, nvideo : 0 .. 2,
     fail : FailPoints \cup {"none"}]

BothTracks ==
    [use_audio |-> TRUE, audio_required |-> TRUE,
     use_video |-> TRUE, video_required |-> TRUE,
     naudio |-> 1, nvideo |-> 1, fail |-> "none"]

VideoOnly ==
    [use_audio |-> FALSE, audio_required |-> FALSE,
     use_video |-> TRUE, video_required |-> TRUE,
     naudio |-> 0, nvideo |-> 1, fail |-> "none"]

\* lines 138-190: the audio track is set up; [ok, held]
OpenAudio(a, h) ==
    IF a.fail = "audio_alloc" THEN [ok |-> FALSE, held |-> h]
    ELSE LET h1 == h \cup {"audio_codec_context"} IN
    IF a.fail \in {"audio_params", "audio_open", "swr_alloc"}
    THEN [ok |-> FALSE, held |-> h1]
    ELSE LET h2 == h1 \cup {"resampler"} IN
    IF a.fail \in {"swr_options", "swr_init"}
    THEN [ok |-> FALSE, held |-> h2]
    ELSE [ok |-> TRUE,
          held |-> h2 \cup {"audio_samples", "resample_buffer"}]

\* lines 192-256: the video track is set up; [ok, held]
OpenVideo(a, h) ==
    IF a.fail = "video_alloc" THEN [ok |-> FALSE, held |-> h]
    ELSE LET h1 == h \cup {"video_codec_context"} IN
    IF a.fail \in {"video_params", "video_open", "sws_get"}
    THEN [ok |-> FALSE, held |-> h1]
    ELSE LET h2 == h1 \cup {"scaler"} IN
    IF a.fail \in {"sws_colorspace", "sws_options"}
    THEN [ok |-> FALSE, held |-> h2]
    ELSE [ok |-> TRUE, held |-> h2 \cup {"video_frames"}]

\* open_av_data: [ok, held, audio, video]: the result, the resources held
\* when it returns and whether each ring got its storage
open_av_data(a) ==
    LET has_audio == a.use_audio /\ a.naudio = 1
        has_video == a.use_video /\ a.nvideo = 1
        failed(h) == [ok |-> FALSE, held |-> h]
    IN
    \* avformat_open_input frees the context it is given when it fails
    IF a.fail = "open_input" THEN failed({})
    ELSE IF a.fail = "stream_info" THEN failed({"format"})
    ELSE IF a.use_audio /\ (a.naudio > 1 \/ (a.audio_required /\ a.naudio = 0))
    THEN failed({"format"})
    ELSE IF a.use_video /\ (a.nvideo > 1 \/ (a.video_required /\ a.nvideo = 0))
    THEN failed({"format"})
    ELSE LET ra == IF has_audio THEN OpenAudio(a, {"format"})
                   ELSE [ok |-> TRUE, held |-> {"format"}] IN
    IF ~ra.ok THEN ra
    ELSE LET rv == IF has_video THEN OpenVideo(a, ra.held)
                   ELSE [ok |-> TRUE, held |-> ra.held] IN
    IF ~rv.ok THEN rv
    ELSE IF a.fail = "frame_alloc" THEN failed(rv.held)
    ELSE [ok |-> TRUE, held |-> rv.held \cup {"frame"}]

\* destroy_ring_buffer
destroy_ring_buffer(buf) ==
    IF buf.capacity > 0
    THEN [buf EXCEPT !.data = << >>, !.capacity = 0]
    ELSE buf

\* what close_av_data releases (lines 434-443)
ClosedByClose ==
    {"frame", "resampler", "audio_codec_context", "format",
     "resample_buffer", "audio_samples", "video_frames"}

close_av_data(h) == h \ ClosedByClose

\* open_av_data, lines 67-90 and 187, 255: both tracks present
InitCommon ==
    /\ video_next_pts = 0
    /\ end_of_input = FALSE
    /\ pc = "idle"
    /\ needed_audio_samples = 0
    /\ needed_video_frames = 0
    /\ sample_count = 0
    /\ ret = "none"
    /\ poll_ret = "none"
    /\ polls = 0
    /\ remaining0 = 0
    /\ ingested = << >>
    /\ removed = FALSE
    /\ resample_buffer = << >>
    /\ items_written = 0

Init ==
    /\ InitCommon
    /\ audio_samples = init_ring_buffer(BUFFERED_AUDIO_SAMPLES)
    /\ video_frames = init_ring_buffer(BUFFERED_VIDEO_FRAMES)
    /\ frame_time \in 1 .. MaxFrameTime
    /\ packets \in 0 .. MaxPackets
    /\ args = BothTracks
    /\ held = open_av_data(args).held

\* the consumer calls ensure_av_data(na, nv)
EnsureCall(na, nv) ==
    /\ pc = "idle"
    /\ pc' = "ensure"
    /\ needed_audio_samples' = na
    /\ needed_video_frames' = nv
    /\ polls' = 0
    /\ remaining0' = packets
    /\ UNCHANGED <<audio_samples, video_frames, video_next_pts, frame_time,
                   end_of_input, packets, sample_count, ret, poll_ret,
                   ingested, removed>>
    /\ UNCHANGED <<resample_buffer, items_written, held, args>>

\* ensure_av_data, line 428: the loop condition is false
EnsureReturnTrue ==
    /\ pc = "ensure"
    /\ ~EnsureCond(audio_samples.count, video_frames.count,
                   needed_audio_samples, needed_video_frames)
    /\ pc' = "returned"
    /\ ret' = TRUE
    /\ UNCHANGED <<audio_samples, video_frames, video_next_pts, frame_time,
                   end_of_input, packets, needed_audio_samples,
                   needed_video_frames, sample_count, poll_ret, polls,
                   remaining0, ingested, removed>>
    /\ UNCHANGED <<resample_buffer, items_written, held, args>>

\* variant: end_of_input is not set on exhaustion
PollFalse_nolatch ==
    /\ pc = "ensure"
    /\ EnsureCond(audio_samples.count, video_frames.count,
                  needed_audio_samples, needed_video_frames)
    /\ end_of_input \/ packets = 0
    /\ polls' = polls + 1
    /\ poll_ret' = FALSE
    /\ ret' = EnsureDrain(audio_samples.count, video_frames.count,
                          needed_audio_samples, needed_video_frames)
    /\ pc' = "returned"
    /\ UNCHANGED <<audio_samples, video_frames, video_next_pts, frame_time,
                   end_of_input, packets, needed_audio_samples,
                   needed_video_frames, sample_count, remaining0, ingested,
                   removed>>
    /\ UNCHANGED <<resample_buffer, items_written, held, args>>

\* poll_av_data returns false (lines 370-371 or 399-400) and ensure_av_data
\* returns the drain result (lines 418-424)
PollFalse ==
    /\ Polling
    /\ end_of_input \/ packets = 0
    /\ end_of_input' = TRUE
    /\ polls' = polls + 1
    /\ poll_ret' = FALSE
    /\ ret' = EnsureDrain(audio_samples.count, video_frames.count,
                          needed_audio_samples, needed_video_frames)
    /\ pc' = "returned"
    /\ UNCHANGED <<audio_samples, video_frames, video_next_pts, frame_time,
                   packets, needed_audio_samples, needed_video_frames,
                   sample_count, remaining0, ingested, removed>>
    /\ UNCHANGED <<resample_buffer, items_written, held, args>>

\* poll_av_data reads a packet (line 375)
ReadPacket ==
    /\ Polling
    /\ ~end_of_input
    /\ packets > 0
    /\ packets' = packets - 1
    /\ polls' = polls + 1

\* ensure_av_data has returned: its frame is gone and the consumer goes on
EnsureReturned ==
    /\ pc = "returned"
    /\ pc' = "idle"
    /\ needed_audio_samples' = 0
    /\ needed_video_frames' = 0
    /\ polls' = 0
    /\ remaining0' = 0
    /\ ret' = "none"
    /\ poll_ret' = "none"
    /\ UNCHANGED <<audio_samples, video_frames, video_next_pts, frame_time,
                   end_of_input, packets, sample_count, ingested, removed>>
    /\ UNCHANGED <<resample_buffer, items_written, held, args>>

\* a packet of another stream, a packet decode_frame rejects, a video packet
\* that gives no frame (lines 271, 309-312, 376-382)
PollIgnoredPacket ==
    /\ ReadPacket
    /\ poll_ret' = TRUE
    /\ UNCHANGED <<audio_samples, video_frames, video_next_pts, frame_time,
                   end_of_input, pc, needed_audio_samples,
                   needed_video_frames, sample_count, ret, remaining0,
                   ingested, removed>>
    /\ UNCHANGED <<resample_buffer, items_written, held, args>>

\* an audio packet resampled to the given samples (lines 274-289)
PollAudio(samples) ==
    /\ ReadPacket
    /\ IF Len(samples) = 0
       THEN /\ poll_ret' = TRUE
            /\ UNCHANGED <<pc, sample_count, resample_buffer>>
       ELSE IF ~(Len(samples) <= RESAMPLE_BUFFER_SIZE)      \* line 279
       THEN /\ pc' = "aborted"
            /\ UNCHANGED <<poll_ret, sample_count, resample_buffer>>
       ELSE /\ pc' = "audio"
            /\ sample_count' = Len(samples)
            /\ resample_buffer' = samples
            /\ UNCHANGED poll_ret
    /\ UNCHANGED <<audio_samples, video_frames, video_next_pts, frame_time,
                   end_of_input, needed_audio_samples, needed_video_frames,
                   ret, remaining0, ingested, removed>>
    /\ UNCHANGED <<held, args>>

\* the pipeline does not look at the samples: they are all alike
PollAudioPacket(samples) ==
    /\ PollAudio(samples)
    /\ UNCHANGED items_written

\* an audio packet resampled to k samples numbered in the order produced
PollAudioChunk(k) ==
    /\ PollAudio([i \in 1 .. k |-> Item(items_written + i)])
    /\ items_written' = items_written + k

\* variant: span_count is not cut down to the samples left
SpanCount_noclamp(buf, remaining) ==
    ring_buffer_get_contiguous_span(buf)

\* span_count of one iteration of the copy loop (lines 293-296)
SpanCount(buf, remaining) ==
    IF ring_buffer_get_contiguous_span(buf) > remaining
    THEN remaining
    ELSE ring_buffer_get_contiguous_span(buf)

\* the copy loop of lines 291-302 run to its end on the items given:
\* [buf, status], status "done", "aborted" (assertion) or "hung"
RECURSIVE SpanWrite(_, _)
SpanWrite(buf, items) ==
    IF Len(items) = 0
    THEN [buf |-> buf, status |-> "done"]
    ELSE LET n == SpanCount(buf, Len(items))
             copied == [buf EXCEPT !.data =
                 StoreSpan(buf.data, ring_buffer_get_tail(buf, 0), n, items, 0)]
         IN  IF ~AppendPre(copied, n)
             THEN [buf |-> copied, status |-> "aborted"]
             ELSE IF n = 0
             THEN [buf |-> buf, status |-> "hung"]
             ELSE SpanWrite(ring_buffer_append(copied, n),
                            SubSeq(items, n + 1, Len(items)))

\* samples of the packet already copied: ptr - av->resample_buffer
Copied == Len(resample_buffer) - sample_count

\* one iteration of the copy loop of poll_av_packet_audio (lines 291-302)
AudioLoop ==
    /\ pc = "audio"
    /\ LET n == SpanCount(audio_samples, sample_count)
           copied == [audio_samples EXCEPT !.data =
               StoreSpan(audio_samples.data,
                         ring_buffer_get_tail(audio_samples, 0), n,
                         resample_buffer, Copied)]
       IN  IF ~AppendPre(copied, n)
           THEN /\ audio_samples' = copied
                /\ pc' = "aborted"
                /\ UNCHANGED <<sample_count, poll_ret, resample_buffer>>
           ELSE IF n = 0
           THEN /\ pc' = "hung"
                /\ UNCHANGED <<audio_samples, sample_count, poll_ret,
                               resample_buffer>>
           ELSE /\ audio_samples' = ring_buffer_append(copied, n)
                /\ sample_count' = sample_count - n
                /\ IF sample_count - n > 0
                   THEN UNCHANGED <<pc, poll_ret, resample_buffer>>
                   ELSE /\ pc' = "ensure"
                        /\ poll_ret' = TRUE
                        /\ resample_buffer' = << >>
    /\ UNCHANGED <<video_frames, video_next_pts, frame_time, end_of_input,
                   packets, needed_audio_samples, needed_video_frames, ret,
                   polls, remaining0, ingested, removed>>
    /\ UNCHANGED <<items_written, held, args>>

\* a video packet decoded to a frame stamped pts (lines 305-365)
PollVideoPacket(pts) ==
    /\ ReadPacket
    /\ \E r \in poll_av_packet_video(video_frames, video_next_pts, pts,
                                     frame_time) :
          /\ video_frames' = r.buf
          /\ video_next_pts' = r.next
          /\ IF r.aborted
             THEN pc' = "aborted" /\ UNCHANGED poll_ret
             ELSE poll_ret' = TRUE /\ UNCHANGED pc
    /\ UNCHANGED <<audio_samples, frame_time, end_of_input,
                   needed_audio_samples, needed_video_frames, sample_count,
                   ret, remaining0, ingested, removed>>
    /\ UNCHANGED <<resample_buffer, items_written, held, args>>

\* the consumer releases n queued samples (ring_buffer_remove)
ConsumerRemoveAudio(n) ==
    /\ pc = "idle"
    /\ RemovePre(audio_samples, n)
    /\ audio_samples' = ring_buffer_remove(audio_samples, n)
    /\ UNCHANGED <<video_frames, video_next_pts, frame_time, end_of_input,
                   packets, pc, needed_audio_samples, needed_video_frames,
                   sample_count, ret, poll_ret, polls, remaining0, ingested,
                   removed>>
    /\ UNCHANGED <<resample_buffer, items_written, held, args>>

\* the consumer releases n queued frames (ring_buffer_remove)
ConsumerRemoveVideo(n) ==
    /\ pc = "idle"
    /\ RemovePre(video_frames, n)
    /\ video_frames' = ring_buffer_remove(video_frames, n)
    /\ removed' = TRUE
    /\ UNCHANGED <<audio_samples, video_next_pts, frame_time, end_of_input,
                   packets, pc, needed_audio_samples, needed_video_frames,
                   sample_count, ret, poll_ret, polls, remaining0, ingested>>
    /\ UNCHANGED <<resample_buffer, items_written, held, args>>

Next ==
    \/ \E na \in 0 .. MaxNeed, nv \in 0 .. MaxNeed : EnsureCall(na, nv)
    \/ EnsureReturnTrue
    \/ PollFalse
    \/ EnsureReturned
    \/ PollIgnoredPacket
    \/ \E k \in 0 .. RESAMPLE_BUFFER_SIZE :
          PollAudioPacket([i \in 1 .. k |-> Sample])
    \/ AudioLoop
    \/ \E pts \in 0 .. MaxPts : PollVideoPacket(pts)
    \/ \E n \in 1 .. BUFFERED_AUDIO_SAMPLES : ConsumerRemoveAudio(n)
    \/ \E n \in 1 .. BUFFERED_VIDEO_FRAMES : ConsumerRemoveVideo(n)

Spec == Init /\ [][Next]_vars

\* a session with an audio track only, fed packets of up to
\* RESAMPLE_BUFFER_SIZE + 1 samples
AudioOnly ==
    [use_audio |-> TRUE, audio_required |-> TRUE,
     use_video |-> FALSE, video_required |-> FALSE,
     naudio |-> 1, nvideo |-> 0, fail |-> "none"]

InitAudio ==
    /\ InitCommon
    /\ audio_samples = init_ring_buffer(BUFFERED_AUDIO_SAMPLES)
    /\ video_frames = init_ring_buffer(0)
    /\ frame_time = 1
    /\ packets = MaxPackets
    /\ args = AudioOnly
    /\ held = open_av_data(args).held

NextAudio ==
    \/ \E na \in 1 .. MaxNeed : EnsureCall(na, 0)
    \/ EnsureReturnTrue
    \/ PollFalse
    \/ EnsureReturned
    \/ \E k \in 0 .. RESAMPLE_BUFFER_SIZE + 1 : PollAudioChunk(k)
    \/ AudioLoop
    \/ \E n \in 1 .. BUFFERED_AUDIO_SAMPLES : ConsumerRemoveAudio(n)

SpecAudio == InitAudio /\ [][NextAudio]_vars

\* the consumer protocol: every ensure_av_data call asks for n > 0 video
\* frames, and after a true return the consumer removes at most n of them
\* before it calls again
ProtocolRemoveVideo(n) ==
    /\ pc = "returned"
    /\ ret = TRUE
    /\ n <= needed_video_frames
    /\ RemovePre(video_frames, n)
    /\ video_frames' = ring_buffer_remove(video_frames, n)
    /\ removed' = TRUE
    /\ pc' = "idle"
    /\ needed_audio_samples' = 0
    /\ needed_video_frames' = 0
    /\ polls' = 0
    /\ remaining0' = 0
    /\ ret' = "none"
    /\ poll_ret' = "none"
    /\ UNCHANGED <<audio_samples, video_next_pts, frame_time, end_of_input,
                   packets, sample_count, ingested, resample_buffer,
                   items_written, held, args>>

NextProtocol ==
    \/ \E na \in 0 .. MaxNeed, nv \in 1 .. MaxNeed : EnsureCall(na, nv)
    \/ EnsureReturnTrue
    \/ PollFalse
    \/ EnsureReturned
    \/ \E n \in 1 .. MaxNeed : ProtocolRemoveVideo(n)
    \/ PollIgnoredPacket
    \/ \E k \in 0 .. RESAMPLE_BUFFER_SIZE :
          PollAudioPacket([i \in 1 .. k |-> Sample])
    \/ AudioLoop
    \/ \E pts \in 0 .. MaxPts : PollVideoPacket(pts)
    \/ \E n \in 1 .. BUFFERED_AUDIO_SAMPLES : ConsumerRemoveAudio(n)

SpecProtocol == Init /\ [][NextProtocol]_vars

\* ------------------------------------------------- the ring on its own
\* init_ring_buffer(buf, item_size, c) with c > 0, then any calls of
\* ring_buffer_append / ring_buffer_remove that meet their assertions
InitRing ==
    /\ InitCommon
    /\ \E c \in 1 .. MaxCapacity : audio_samples = init_ring_buffer(c)
    /\ video_frames = init_ring_buffer(0)
    /\ frame_time = 1
    /\ packets = 0
    /\ args = BothTracks
    /\ held = {}

RingAppend(n) ==
    /\ pc = "idle"
    /\ AppendPre(audio_samples, n)
    /\ audio_samples' = ring_buffer_append(audio_samples, n)
    /\ UNCHANGED <<video_frames, video_next_pts, frame_time, end_of_input,
                   packets, pc, needed_audio_samples, needed_video_frames,
                   sample_count, ret, poll_ret, polls, remaining0, ingested,
                   removed>>
    /\ UNCHANGED <<resample_buffer, items_written, held, args>>

RingRemove(n) ==
    /\ pc = "idle"
    /\ RemovePre(audio_samples, n)
    /\ audio_samples' = ring_buffer_remove(audio_samples, n)
    /\ UNCHANGED <<video_frames, video_next_pts, frame_time, end_of_input,
                   packets, pc, needed_audio_samples, needed_video_frames,
                   sample_count, ret, poll_ret, polls, remaining0, ingested,
                   removed>>
    /\ UNCHANGED <<resample_buffer, items_written, held, args>>

\* a producer writes n new items through the spans the ring reports
RingWrite(n) ==
    /\ pc = "idle"
    /\ n <= audio_samples.capacity - audio_samples.count
    /\ items_written + n <= MaxItems
    /\ LET r == SpanWrite(audio_samples,
                          [i \in 1 .. n |-> Item(items_written + i)])
       IN  /\ audio_samples' = r.buf
           /\ pc' = IF r.status = "done" THEN "idle" ELSE r.status
    /\ items_written' = items_written + n
    /\ UNCHANGED <<video_frames, video_next_pts, frame_time, end_of_input,
                   packets, needed_audio_samples, needed_video_frames,
                   sample_count, ret, poll_ret, polls, remaining0, ingested,
                   removed, resample_buffer, held, args>>

NextRing ==
    \/ \E n \in 0 .. MaxCapacity : RingAppend(n)
    \/ \E n \in 0 .. MaxCapacity : RingRemove(n)

\* a decoder_t before open_av_data is called on it
InitSession ==
    /\ args \in ArgsSet
    /\ held = {}
    /\ pc = "unopened"
    /\ audio_samples = init_ring_buffer(0)
    /\ video_frames = init_ring_buffer(0)
    /\ video_next_pts = 0
    /\ frame_time = 1
    /\ end_of_input = FALSE
    /\ packets = 0
    /\ needed_audio_samples = 0
    /\ needed_video_frames = 0
    /\ sample_count = 0
    /\ ret = "none"
    /\ poll_ret = "none"
    /\ polls = 0
    /\ remaining0 = 0
    /\ ingested = << >>
    /\ removed = FALSE
    /\ resample_buffer = << >>
    /\ items_written = 0

\* open_av_data returns true or false; each ring has its storage if its
\* track was set up to the end (lines 187, 255)
OpenAvData ==
    /\ pc = "unopened"
    /\ LET r == open_av_data(args)
       IN  /\ ret' = r.ok
           /\ held' = r.held
           /\ audio_samples' =
                 IF "audio_samples" \in r.held
                 THEN init_ring_buffer(BUFFERED_AUDIO_SAMPLES)
                 ELSE init_ring_buffer(0)
           /\ video_frames' =
                 IF "video_frames" \in r.held
                 THEN init_ring_buffer(BUFFERED_VIDEO_FRAMES)
                 ELSE init_ring_buffer(0)
    /\ pc' = "returned"
    /\ UNCHANGED <<video_next_pts, frame_time, end_of_input, packets,
                   needed_audio_samples, needed_video_frames, sample_count,
                   poll_ret, polls, remaining0, ingested, removed,
                   resample_buffer, items_written, args>>

\* close_av_data, called after open_av_data returned either value
CloseAvData ==
    /\ pc = "returned"
    /\ held' = close_av_data(held)
    /\ audio_samples' = destroy_ring_buffer(audio_samples)
    /\ video_frames' = destroy_ring_buffer(video_frames)
    /\ pc' = "closed"
    /\ UNCHANGED <<video_next_pts, frame_time, end_of_input, packets,
                   needed_audio_samples, needed_video_frames, sample_count,
                   ret, poll_ret, polls, remaining0, ingested, removed,
                   resample_buffer, items_written, args>>

NextSession ==
    \/ OpenAvData
    \/ CloseAvData

SpecSession == InitSession /\ [][NextSession]_vars

\* outcomes of the C expression a % b: for b = 0 the behaviour is undefined,
\* the division traps (SIGFPE on x86) or leaves the dividend as remainder
\* (a machine whose division by zero gives quotient 0)
RemOutcomes(a, b) ==
    IF b = 0
    THEN {[trap |-> TRUE, v |-> a], [trap |-> FALSE, v |-> a]}
    ELSE {[trap |-> FALSE, v |-> CRem(a, b)]}

InitRingAny ==
    /\ InitCommon
    /\ \E c \in 0 .. MaxCapacity : audio_samples = init_ring_buffer(c)
    /\ video_frames = init_ring_buffer(0)
    /\ frame_time = 1
    /\ packets = 0
    /\ args = BothTracks
    /\ held = {}

\* ring_buffer_append on a ring of any capacity
AppendAny(n) ==
    /\ pc = "idle"
    /\ AppendPre(audio_samples, n)
    /\ \E o \in RemOutcomes(audio_samples.tail + n, audio_samples.capacity) :
          IF o.trap
          THEN pc' = "trapped" /\ UNCHANGED audio_samples
          ELSE /\ audio_samples' = [audio_samples EXCEPT
                                       !.tail = o.v,
                                       !.count = audio_samples.count + n]
               /\ UNCHANGED pc
    /\ UNCHANGED <<video_frames, video_next_pts, frame_time, end_of_input,
                   packets, needed_audio_samples, needed_video_frames,
                   sample_count, ret, poll_ret, polls, remaining0, ingested,
                   removed, resample_buffer, items_written, held, args>>

\* ring_buffer_remove on a ring of any capacity
RemoveAny(n) ==
    /\ pc = "idle"
    /\ RemovePre(audio_samples, n)
    /\ \E o \in RemOutcomes(audio_samples.head + n, audio_samples.capacity) :
          IF o.trap
          THEN pc' = "trapped" /\ UNCHANGED audio_samples
          ELSE /\ audio_samples' = [audio_samples EXCEPT
                                       !.head = o.v,
                                       !.count = audio_samples.count - n]
               /\ UNCHANGED pc
    /\ UNCHANGED <<video_frames, video_next_pts, frame_time, end_of_input,
                   packets, needed_audio_samples, needed_video_frames,
                   sample_count, ret, poll_ret, polls, remaining0, ingested,
                   removed, resample_buffer, items_written, held, args>>

\* ring_buffer_get_tail on a ring of any capacity: the ring is only read
GetTailAny(offset) ==
    /\ pc = "idle"
    /\ offset <= audio_samples.count
    /\ \E o \in RemOutcomes(audio_samples.tail - offset,
                             audio_samples.capacity) :
          pc' = IF o.trap THEN "trapped" ELSE pc
    /\ UNCHANGED <<audio_samples, video_frames, video_next_pts, frame_time,
                   end_of_input, packets, needed_audio_samples,
                   needed_video_frames, sample_count, ret, poll_ret, polls,
                   remaining0, ingested, removed, resample_buffer,
                   items_written, held, args>>

NextRingAny ==
    \/ \E n \in 0 .. MaxCapacity : AppendAny(n)
    \/ \E n \in 0 .. MaxCapacity : RemoveAny(n)
    \/ \E offset \in 0 .. MaxCapacity : GetTailAny(offset)

SpecRingAny == InitRingAny /\ [][NextRingAny]_vars

InitSpan ==
    /\ InitCommon
    /\ \E c \in 1 .. MaxSpanCapacity : audio_samples = init_ring_buffer(c)
    /\ video_frames = init_ring_buffer(0)
    /\ frame_time = 1
    /\ packets = 0
    /\ args = BothTracks
    /\ held = {}

NextSpan ==
    \/ \E n \in 1 .. MaxSpanCapacity : RingWrite(n)
    \/ \E n \in 1 .. MaxSpanCapacity : RingRemove(n)

SpecSpan == InitSpan /\ [][NextSpan]_vars

SpecRing == InitRing /\ [][NextRing]_vars

\* ------------------------------------------------- video ingest on its own
\* a session with a video track only: poll_av_data is called once per
\* decoded frame, the consumer removes frames in between
InitVideo ==
    /\ InitCommon
    /\ audio_samples = init_ring_buffer(0)
    /\ video_frames = init_ring_buffer(BUFFERED_VIDEO_FRAMES)
    /\ frame_time \in 1 .. MaxFrameTime
    /\ packets = MaxVideoFrames
    /\ args = VideoOnly
    /\ held = open_av_data(args).held

\* poll_av_data (lines 367-382) reading a video packet that decodes to a
\* frame stamped pts
PollVideoFrame(pts) ==
    /\ pc = "idle"
    /\ ~end_of_input
    /\ packets > 0
    /\ packets' = packets - 1
    /\ \E r \in poll_av_packet_video(video_frames, video_next_pts, pts,
                                     frame_time) :
          /\ video_frames' = r.buf
          /\ video_next_pts' = r.next
          /\ IF r.aborted
             THEN pc' = "aborted" /\ UNCHANGED poll_ret
             ELSE poll_ret' = TRUE /\ UNCHANGED pc
    /\ ingested' = Append(ingested, pts)
    /\ UNCHANGED <<audio_samples, frame_time, end_of_input,
                   needed_audio_samples, needed_video_frames, sample_count,
                   ret, polls, remaining0, removed>>
    /\ UNCHANGED <<resample_buffer, items_written, held, args>>

NextVideo ==
    \/ \E pts \in -MaxFrameTime .. MaxVideoPts : PollVideoFrame(pts)
    \/ \E n \in 1 .. BUFFERED_VIDEO_FRAMES : ConsumerRemoveVideo(n)

SpecVideo == InitVideo /\ [][NextVideo]_vars

\* the same session fed frames that come faster than frame_time
InitVideoFine ==
    /\ InitCommon
    /\ audio_samples = init_ring_buffer(0)
    /\ video_frames = init_ring_buffer(BUFFERED_VIDEO_FRAMES)
    /\ frame_time \in MaxFineFrameTime - 1 .. MaxFineFrameTime
    /\ packets = MaxFineFrames
    /\ args = VideoOnly
    /\ held = open_av_data(args).held

NextVideoFine ==
    \/ \E pts \in 0 .. MaxFinePts : PollVideoFrame(pts)
    \/ \E n \in 1 .. BUFFERED_VIDEO_FRAMES : ConsumerRemoveVideo(n)

SpecVideoFine == InitVideoFine /\ [][NextVideoFine]_vars

\* the same session with timestamps large enough for sums to be rounded
InitVideoRound ==
    /\ InitCommon
    /\ audio_samples = init_ring_buffer(0)
    /\ video_frames = init_ring_buffer(BUFFERED_VIDEO_FRAMES)
    /\ frame_time \in MinRoundFrameTime .. MaxRoundFrameTime
    /\ packets = MaxRoundFrames
    /\ args = VideoOnly
    /\ held = open_av_data(args).held

NextVideoRound ==
    \/ \E t \in 0 .. MaxRoundPts : PollVideoFrame(RoundDouble(t))
    \/ \E n \in 1 .. BUFFERED_VIDEO_FRAMES : ConsumerRemoveVideo(n)

SpecVideoRound == InitVideoRound /\ [][NextVideoRound]_vars

\* ------------------------------------------------------------ properties
TypeOK ==
    pc \in {"idle", "ensure", "audio", "returned", "aborted", "hung", "trapped",
            "unopened", "closed"}

Returned == pc = "returned"

\* C1: a ring of capacity > 0 driven by ring_buffer_append / ring_buffer_remove
\* calls that meet their assertions always has 0 <= count <= capacity, head
\* and tail in [0, capacity) and (tail - head) mod capacity = count mod capacity.
C1_RingInvariant ==
    LET b == audio_samples
    IN  /\ 0 <= b.count /\ b.count <= b.capacity
        /\ 0 <= b.head /\ b.head < b.capacity
        /\ 0 <= b.tail /\ b.tail < b.capacity
        /\ (b.tail - b.head) % b.capacity = b.count % b.capacity

\* the live region wraps past the end of the buffer
C1_Witness ==
    /\ audio_samples.count > 0
    /\ audio_samples.tail <= audio_samples.head
    /\ audio_samples.tail > 0

\* C2: when ensure_av_data returns true, every requested ring holds at least
\* one item, and holds more than requested unless end_of_input is set.
C2_TrueMeansLookAhead ==
    (Returned /\ ret = TRUE) =>
        /\ needed_audio_samples > 0 =>
              /\ audio_samples.count >= 1
              /\ audio_samples.count > needed_audio_samples \/ end_of_input
        /\ needed_video_frames > 0 =>
              /\ video_frames.count >= 1
              /\ video_frames.count > needed_video_frames \/ end_of_input

\* a true return with a requested ring holding no more than requested
C2_Witness ==
    /\ Returned /\ ret = TRUE
    /\ needed_video_frames > 0
    /\ video_frames.count >= 1
    /\ video_frames.count <= needed_video_frames
    /\ end_of_input

\* C3: with need_audio > 0 and need_video = 0, once the source is exhausted
\* ensure_av_data returns true exactly when the audio ring holds an item.
C3_DrainBeforeStop ==
    (Returned /\ needed_audio_samples > 0 /\ needed_video_frames = 0
              /\ packets = 0) =>
        (ret = TRUE <=> audio_samples.count >= 1)

\* true after exhaustion with no more queued than requested, the consumer
\* having drained part of the ring before
C3_Witness ==
    /\ Returned /\ ret = TRUE /\ end_of_input
    /\ needed_audio_samples > 0 /\ needed_video_frames = 0
    /\ audio_samples.count >= 1
    /\ audio_samples.count <= needed_audio_samples
    /\ audio_samples.head # 0

\* C4 as stated: ensure_av_data returns false only when the source is
\* exhausted and every requested ring is empty.
C4_FalseOnlyWhenAllEmpty ==
    (Returned /\ ret = FALSE) =>
        /\ end_of_input
        /\ needed_audio_samples > 0 => audio_samples.count = 0
        /\ needed_video_frames > 0 => video_frames.count = 0

\* C4: ensure_av_data returns false only when the source is exhausted and
\* at least one requested ring is empty.
C4_FalseOnlyWhenSomeEmpty ==
    (Returned /\ ret = FALSE) =>
        /\ end_of_input
        /\ \/ needed_audio_samples > 0 /\ audio_samples.count = 0
           \/ needed_video_frames > 0 /\ video_frames.count = 0

\* false while one of two requested rings still holds items
C4_Witness ==
    /\ Returned /\ ret = FALSE
    /\ needed_audio_samples > 0 /\ needed_video_frames > 0
    /\ audio_samples.count > 0
    /\ video_frames.count = 0

\* C5: ensure_av_data(0, 0) returns true without polling and changes nothing;
\* with one need zero, the loop condition and the drain result do not depend
\* on the count of the ring that was not requested.
C5_NeedZeroNeverBlocks ==
    /\ [][(pc = "ensure" /\ needed_audio_samples = 0
                         /\ needed_video_frames = 0) =>
            /\ pc' = "returned" /\ ret' = TRUE /\ polls' = 0
            /\ UNCHANGED <<audio_samples, video_frames, video_next_pts,
                           end_of_input, packets>>]_vars
    /\ [](pc = "ensure" /\ needed_video_frames = 0 =>
            \A v \in 0 .. video_frames.capacity :
               /\ EnsureCond(audio_samples.count, v, needed_audio_samples, 0)
                  = EnsureCond(audio_samples.count, 0, needed_audio_samples, 0)
               /\ EnsureDrain(audio_samples.count, v, needed_audio_samples, 0)
                  = EnsureDrain(audio_samples.count, 0, needed_audio_samples, 0))
    /\ [](pc = "ensure" /\ needed_audio_samples = 0 =>
            \A a \in 0 .. audio_samples.capacity :
               /\ EnsureCond(a, video_frames.count, 0, needed_video_frames)
                  = EnsureCond(0, video_frames.count, 0, needed_video_frames)
               /\ EnsureDrain(a, video_frames.count, 0, needed_video_frames)
                  = EnsureDrain(0, video_frames.count, 0, needed_video_frames))

\* ensure_av_data(0, 0) returned true at once although both rings are empty
\* and the source still has packets
C5_Witness ==
    /\ Returned /\ ret = TRUE /\ polls = 0
    /\ needed_audio_samples = 0 /\ needed_video_frames = 0
    /\ audio_samples.count = 0 /\ video_frames.count = 0
    /\ packets > 0 /\ ~end_of_input

\* C6: end_of_input is false after open, is set exactly by the poll_av_data
\* that finds the source exhausted, is never cleared, and a poll_av_data made
\* while it is set returns false and changes neither ring nor video_next_pts;
\* after it is set the rings only shrink.
C6_EndOfInputLatch ==
    /\ ~end_of_input
    /\ [][/\ end_of_input => end_of_input'
          /\ (~end_of_input /\ end_of_input') =>
                (packets = 0 /\ polls' = polls + 1 /\ poll_ret' = FALSE)
          /\ (~end_of_input /\ packets = 0 /\ polls' = polls + 1) =>
                end_of_input'
          /\ (end_of_input /\ polls' = polls + 1) =>
                /\ poll_ret' = FALSE
                /\ UNCHANGED <<audio_samples, video_frames, video_next_pts,
                               packets>>
          /\ end_of_input =>
                /\ audio_samples'.count <= audio_samples.count
                /\ video_frames'.count <= video_frames.count
                /\ video_next_pts' = video_next_pts
         ]_vars

\* poll_av_data is about to be called again with end_of_input already set
C6_Witness ==
    /\ end_of_input
    /\ Polling
    /\ polls = 0
    /\ audio_samples.count > 0

\* C7 as stated: ensure_av_data returns after at most (remaining packets + 1)
\* poll_av_data calls and every audio copy loop inside it finishes.
C7_EnsureTerminates ==
    /\ pc # "hung"
    /\ polls <= remaining0 + 1

\* C8 as stated: every ring_buffer_append issued by poll_av_packet_audio or
\* poll_av_packet_video meets its assertion, and no count exceeds its capacity.
C8_AppendNeverAsserts ==
    /\ pc # "aborted"
    /\ audio_samples.count <= audio_samples.capacity
    /\ video_frames.count <= video_frames.capacity

\* C9: the first decoded video frame of a session is never dropped: after it
\* the video ring holds exactly that frame and video_next_pts = pts + frame_time.
C9_FirstFrameKept ==
    [][(ingested = << >> /\ ingested' # << >>) =>
          /\ pc' # "aborted"
          /\ video_frames'.count = 1
          /\ Contents(video_frames') = <<Frame(ingested'[1])>>
          /\ video_next_pts' = ingested'[1] + frame_time]_vars

\* a first frame stamped below the initial video_next_pts of 0 was kept
C9_Witness ==
    /\ Len(ingested) = 1
    /\ ingested[1] < 0
    /\ video_frames.count = 1
    /\ video_next_pts = ingested[1] + frame_time

\* frame_time 0.2 s, frames stamped 0.0 and 0.5 ingested, nothing removed
C10_Scenario ==
    /\ frame_time = 2
    /\ ingested = <<0, 5>>
    /\ ~removed

\* C10 as stated: after the 0.5 frame the ring holds 6 frames
\* {0.0, dup, dup, 0.5, dup, dup}.
C10_SixFramesBeforeThird ==
    C10_Scenario =>
        Contents(video_frames) =
            <<Frame(0), Frame(0), Frame(0), Frame(5), Frame(5), Frame(5)>>

\* C10: after the 0.5 frame the ring holds 3 frames {0.0, dup, 0.5} and
\* video_next_pts is 0.6 s.
C10_ThreeFramesBeforeThird ==
    C10_Scenario =>
        /\ Contents(video_frames) = <<Frame(0), Frame(0), Frame(5)>>
        /\ video_next_pts = 6

C10_Witness ==
    /\ C10_Scenario
    /\ video_frames.count = 3
    /\ pc = "idle"

\* a video frame has just been handed to poll_av_packet_video
FrameIngested == Len(ingested') = Len(ingested) + 1

LastPts == ingested'[Len(ingested')]

\* C11: a frame that arrives while the video ring is non-empty with
\* pts < video_next_pts is dropped: ring and video_next_pts are unchanged;
\* with frame_time 0.2 s, nothing removed and frames stamped 0.0, 0.05, 0.1,
\* 0.15, 0.2 the ring ends with exactly the frames 0.0 and 0.2.
C11_LateFrameDropped ==
    /\ [][(FrameIngested /\ video_frames.count > 0
                         /\ LastPts < video_next_pts) =>
             /\ video_frames' = video_frames
             /\ video_next_pts' = video_next_pts
             /\ pc' = pc]_vars
    /\ []((frame_time = 4 /\ ingested = <<0, 1, 2, 3, 4>> /\ ~removed) =>
             Contents(video_frames) = <<Frame(0), Frame(4)>>)

C11_Witness ==
    /\ frame_time = 4
    /\ ingested = <<0, 1, 2, 3, 4>>
    /\ ~removed
    /\ video_frames.count = 2
    /\ video_next_pts = 8

\* C12: writing N <= capacity - count distinct items through the spans of
\* ring_buffer_get_contiguous_span at ring_buffer_get_tail(0) and reading the
\* ring back with ring_buffer_get_head(0 .. count-1) gives the items queued
\* before followed by the N new items in the order written.
C12_RoundTrip ==
    [][items_written' > items_written =>
          /\ pc' = "idle"
          /\ Contents(audio_samples') =
                Contents(audio_samples) \o
                [i \in 1 .. items_written' - items_written |->
                    Item(items_written + i)]]_vars

\* new items lie on both sides of the end of the buffer, behind older ones
C12_Witness ==
    /\ audio_samples.count >= 3
    /\ audio_samples.tail > 0
    /\ audio_samples.tail < audio_samples.head
    /\ audio_samples.data[0] = Item(items_written)
    /\ audio_samples.data[audio_samples.capacity - 1] = Item(items_written - 1)
    /\ audio_samples.data[audio_samples.head] # Item(items_written - 1)

\* the slots of the live region [head, head+count) mod capacity
LiveSlots(buf) == {(buf.head + i) % buf.capacity : i \in 0 .. buf.count - 1}

\* C13: in every ring state reached by append / remove calls that meet their
\* assertions, for every offset in 0 .. count the index ring_buffer_get_tail
\* computes equals (tail - offset) mod capacity and lies in [0, capacity), and
\* for offset >= 1 it is a slot of the live region.
C13_TailIndexInBounds ==
    \A offset \in 0 .. audio_samples.count :
        LET idx == ring_buffer_get_tail(audio_samples, offset)
        IN  /\ idx = (audio_samples.tail - offset) % audio_samples.capacity
            /\ 0 <= idx /\ idx < audio_samples.capacity
            /\ offset >= 1 => idx \in LiveSlots(audio_samples)

\* C14: in every ring state reached by append / remove calls that meet their
\* assertions, the span is between 0 and the free space, does not pass the
\* end of the buffer, meets the assertion of ring_buffer_append, and is
\* positive while the ring is not full.
C14_SpanIsFreeRun ==
    LET span == ring_buffer_get_contiguous_span(audio_samples)
    IN  /\ 0 <= span
        /\ span <= audio_samples.capacity - audio_samples.count
        /\ audio_samples.tail + span <= audio_samples.capacity
        /\ AppendPre(audio_samples, span)
        /\ audio_samples.count < audio_samples.capacity => span > 0

\* C15: on a ring created with capacity 0 every operation whose assertion
\* can be met completes normally as a no-op: head = tail = count = 0, the
\* ring is contiguous and its span is 0.
C15_ZeroRingNoOp ==
    audio_samples.capacity = 0 =>
        /\ pc = "idle"
        /\ audio_samples.head = 0
        /\ audio_samples.tail = 0
        /\ audio_samples.count = 0
        /\ ring_buffer_is_contiguous(audio_samples)
        /\ ring_buffer_get_contiguous_span(audio_samples) = 0

\* C16: wherever open_av_data returned, after close_av_data nothing that
\* open_av_data acquired is still held and both rings have no storage.
C16_CloseReleasesAll ==
    pc = "closed" =>
        /\ held = {}
        /\ audio_samples.capacity = 0
        /\ video_frames.capacity = 0

\* C17: every duplicate the duplication loop appends is a copy of the frame
\* appended just before it: of the frames one ingest appends, each but the
\* last (the converted frame) equals its predecessor in the ring.
C17_DuplicatesCopyLast ==
    [][(FrameIngested /\ pc' # "aborted") =>
          \A i \in video_frames.count + 1 .. video_frames'.count - 1 :
              Contents(video_frames')[i] = Contents(video_frames')[i - 1]]_vars

\* C18: once a first frame has been ingested, video_next_pts never decreases
\* and changes only by frame_time per appended frame: an ingest that appends
\* k frames adds k * frame_time, a consumer remove leaves it alone.
C18_NextPtsMonotonic ==
    [][(ingested # << >> /\ pc' # "aborted") =>
          /\ video_next_pts' >= video_next_pts
          /\ video_next_pts' - video_next_pts =
                IF FrameIngested
                THEN frame_time * (video_frames'.count - video_frames.count)
                ELSE 0]_vars

\* ceil(a / b) for a >= 0, b > 0
CeilDiv(a, b) == (a + b - 1) \div b

\* frames the claim says an accepted frame stamped pts appends
FramesDue(pts) ==
    LET c == CeilDiv(pts - video_next_pts, frame_time)
    IN  IF c > 1 THEN c ELSE 1

\* C19: an accepted frame (ring non-empty, pts >= video_next_pts) with room
\* in the ring for them appends exactly max(1, ceil((pts - video_next_pts) /
\* frame_time)) frames, and afterwards pts <= video_next_pts <= pts + frame_time.
C19_FramesAppended ==
    [][(/\ FrameIngested
        /\ video_frames.count > 0
        /\ LastPts >= video_next_pts
        /\ FramesDue(LastPts) <= video_frames.capacity - video_frames.count) =>
          /\ pc' # "aborted"
          /\ video_frames'.count - video_frames.count = FramesDue(LastPts)
          /\ LastPts <= video_next_pts'
          /\ video_next_pts' <= LastPts + frame_time]_vars

\* the smaller of two numbers
Min(a, b) == IF a < b THEN a ELSE b

\* the packet being copied fitted the free space of the ring when its
\* copy began
ChunkFitted ==
    Len(resample_buffer) <=
        audio_samples.capacity - (audio_samples.count - Copied)

\* what C20 says of the copy loop, one append at a time: head stays, the
\* samples go behind the queued ones in source order, the first append takes
\* min(k, capacity - tail) samples and a second one, at slot 0, the rest
AppendsAsClaimed ==
    (pc = "audio" /\ ChunkFitted) =>
        LET n == audio_samples'.count - audio_samples.count
        IN  /\ pc' \in {"audio", "ensure"}
            /\ audio_samples'.head = audio_samples.head
            /\ n = IF Copied = 0
                   THEN Min(sample_count,
                            audio_samples.capacity - audio_samples.tail)
                   ELSE sample_count
            /\ Copied > 0 => audio_samples.tail = 0
            /\ Contents(audio_samples') =
                  Contents(audio_samples) \o
                  SubSeq(resample_buffer, Copied + 1, Copied + n)
            /\ sample_count' = sample_count - n
            /\ (pc' = "ensure") = (sample_count' = 0)

\* a packet is read and resamples to k samples
ChunkRead(k) == packets' < packets /\ items_written' = items_written + k

\* a packet of no samples changes nothing
EmptyChunkNoOp ==
    ChunkRead(0) => audio_samples' = audio_samples /\ pc' = pc

\* C20 as stated: a packet of k samples, 0 <= k <= capacity - count, is
\* taken in (the ingest does not stop the program), count grows by k, head
\* stays, the samples follow the queued ones in order, in one append or in
\* two (capacity - tail, then the rest at slot 0); k = 0 changes nothing.
C20_AnyChunkThatFits ==
    [][/\ AppendsAsClaimed
       /\ EmptyChunkNoOp
       /\ \A k \in 1 .. audio_samples.capacity - audio_samples.count :
             ChunkRead(k) => pc' = "audio"]_vars

\* C20, amended: the same for 0 <= k <= min(capacity - count,
\* RESAMPLE_BUFFER_SIZE); a larger packet stops the program at the assertion
\* of line 279 with the ring untouched.
C20_ChunkWithinResampleBuffer ==
    [][/\ AppendsAsClaimed
       /\ EmptyChunkNoOp
       /\ \A k \in 1 .. audio_samples.capacity - audio_samples.count :
             ChunkRead(k) =>
                 /\ audio_samples' = audio_samples
                 /\ IF k <= RESAMPLE_BUFFER_SIZE
                    THEN pc' = "audio" /\ resample_buffer' =
                             [i \in 1 .. k |-> Item(items_written + i)]
                    ELSE pc' = "aborted"]_vars

\* between the two appends of a packet that passed the end of the buffer,
\* older samples still queued
C20_Witness ==
    /\ pc = "audio"
    /\ ChunkFitted
    /\ Copied > 0
    /\ sample_count > 0
    /\ audio_samples.tail = 0
    /\ audio_samples.count > Copied

\* a frame has been emitted in this session: frames leave the video ring
\* only when the consumer removes them
FirstFrameEmitted == video_frames.count > 0 \/ removed

\* poll_av_data reads a packet
PacketRead == packets' < packets

\* C21: under the protocol "ensure_av_data(na, n) with n > 0, and after a
\* true return at most n video frames removed before the next call", the
\* video ring is non-empty at every packet read after the first emitted
\* frame; so the count == 0 branch of poll_av_packet_video (video_next_pts
\* reset to pts) runs for the first frame only, and a frame admitted after
\* the first has pts >= video_next_pts.
C21_ResetOnlyForFirstFrame ==
    [][/\ (PacketRead /\ FirstFrameEmitted) => video_frames.count > 0
       /\ (PacketRead /\ video_frames.count = 0 /\ video_frames'.count > 0) =>
             ~removed
       /\ (/\ PacketRead
           /\ FirstFrameEmitted
           /\ pc' # "aborted"
           /\ video_frames'.count > video_frames.count) =>
             Contents(video_frames')[video_frames'.count][2] >=
                 video_next_pts]_vars

\* an ensure_av_data call that followed a removal has read packets and
\* returned true on the frames it ingested
C21_Witness ==
    /\ pc = "returned"
    /\ ret = TRUE
    /\ removed
    /\ polls > 0
    /\ ~end_of_input
    /\ needed_audio_samples = 0
    /\ needed_video_frames > 0
    /\ video_frames.head # 0

=============================================================================
